---- MODULE Spec2Model ----
(***************************************************************************)
(* NanoClaw container runner (src/src/container-runner.ts).                *)
(*                                                                         *)
(* runContainerAgent is modelled as a state machine: the spawn, the two    *)
(* collectStream drains, the timeout timer callback, the process exit and  *)
(* the synchronous tail of the function that runs once both drains have    *)
(* ended and container.exited has resolved.  Text is a sequence of         *)
(* one-character strings; the sentinel markers are three characters long   *)
(* and, like the real ones, begin and end with the same delimiter.         *)
(*                                                                         *)
(* buildVolumeMounts, buildContainerArgs and the environment export are    *)
(* part of the first step of runContainerAgent; writeTasksSnapshot and     *)
(* writeGroupsSnapshot are steps of their own.  Host paths are sequences   *)
(* of segments.                                                            *)
(***************************************************************************)
EXTENDS Integers, Sequences, FiniteSets, TLC

(***************************************************************************)
(* Bounds of the model.                                                    *)
(***************************************************************************)
\* model-scale value of the imported CONTAINER_MAX_OUTPUT_SIZE (config.ts)
CONTAINER_MAX_OUTPUT_SIZE == 10
\* model-scale length of the stderr tail in the exit-code message: slice(-200)
ERROR_TAIL == 2
\* chunks one channel delivers in a run of the lifecycle specification
MaxChunks == 2
\* exit codes are 0..MaxExitCode
MaxExitCode == 1
\* pieces a captured stdout is built from in the extraction specification
MaxPieces == 4
\* chunks delivered (both channels together) in the collection specification
MaxCollectChunks == 3
\* longest chunk in the collection specification
MaxChunkLen == 6
\* extra mounts one tenant requests in the mount specification
MaxExtraMounts == 2
\* tasks handed to one writeTasksSnapshot call
MaxTasks == 2
\* snapshot writes in a run of the snapshot specification
MaxSnapshotWrites == 2
\* lines of the host .env in the environment specification
MaxEnvLines == 3
\* invocations of runContainerAgent under way at once
MaxInvocations == 2
\* the clock readings are 0..MaxClock
MaxClock == 2
\* pairing codes generatePairingCode can draw
MaxCodes == 2
\* model-scale value of PAIRING_CODE_EXPIRY_MS (60 * 60 * 1000)
PAIRING_CODE_EXPIRY_MS == 1
\* model-scale length of the slice(0, 20) of a folder name
FOLDER_SLICE == 3
\* times one code is issued in a run of the registration specification
MaxIssues == 2
\* text messages received in a run of the message specification
MaxMessages == 3
\* the latest message date
MaxStamp == 2

\* the system default timeout, imported from config.ts
CONTAINER_TIMEOUT == 5

\* connection attempts of the authentication script
MAX_RETRIES == 3

(***************************************************************************)
(* Strings.                                                                *)
(***************************************************************************)
OUTPUT_START_MARKER == <<"-", "s", "-">>
OUTPUT_END_MARKER == <<"-", "e", "-">>

\* characters String.prototype.trim and JSON.parse skip
Whitespace == {" ", "\n"}

MinOf(S) == CHOOSE x \in S : \A y \in S : x <= y
MaxOf(S) == CHOOSE x \in S : \A y \in S : x >= y

\* s.indexOf(pat): 0-based index of the first occurrence, -1 when there is none
IndexOf(s, pat) ==
  LET hits == {i \in 0..(Len(s) - Len(pat)) : SubSeq(s, i + 1, i + Len(pat)) = pat}
  IN IF hits = {} THEN -1 ELSE MinOf(hits)

\* s.slice(a, b) for 0 <= a and 0 <= b <= s.length: empty when b <= a
Slice(s, a, b) == SubSeq(s, a + 1, b)

\* s.slice(-n): the last n characters, the whole of s when it is shorter
SliceLast(s, n) == SubSeq(s, MaxOf({1, Len(s) - n + 1}), Len(s))

RECURSIVE TrimStart(_)
TrimStart(s) ==
  IF s # <<>> /\ Head(s) \in Whitespace THEN TrimStart(Tail(s)) ELSE s

RECURSIVE TrimEnd(_)
TrimEnd(s) ==
  IF s # <<>> /\ s[Len(s)] \in Whitespace
  THEN TrimEnd(SubSeq(s, 1, Len(s) - 1))
  ELSE s

\* s.trim()
Trim(s) == TrimEnd(TrimStart(s))

\* s.split('\n'): never empty, <<"">> for the empty string
RECURSIVE Split(_)
Split(s) ==
  LET i == IndexOf(s, <<"\n">>)
  IN IF i = -1
     THEN <<s>>
     ELSE <<SubSeq(s, 1, i)>> \o Split(SubSeq(s, i + 2, Len(s)))

(***************************************************************************)
(* JSON.parse on the model's alphabet.  One character stands for one JSON  *)
(* text:  j  {"status":"success","result":"ok"}                            *)
(*        r  {"status":"error","result":null,"error":"agent failed"}       *)
(*        k  42       (well-formed JSON that is no object)                 *)
(*        u  null                                                          *)
(* Any other text (several values, marker characters, noise, the empty     *)
(* string) is a SyntaxError.  Surrounding whitespace is skipped.           *)
(***************************************************************************)
JsonChars == {"j", "r", "k", "u"}

JSONParse(text) ==
  LET t == Trim(text)
  IN IF Len(t) = 1 /\ t[1] \in JsonChars
     THEN [ok |-> TRUE, value |-> t[1]]
     ELSE [ok |-> FALSE, value |-> "SyntaxError"]

(***************************************************************************)
(* ContainerOutput values.                                                 *)
(***************************************************************************)
NoError == [kind |-> "none", n |-> 0, text |-> <<>>]
NoResult == [status |-> "none", result |-> "none", error |-> NoError]

\* the object a JSON text denotes, as runContainerAgent hands it back
JsonObject(c) ==
  CASE c = "j" -> [status |-> "success", result |-> "ok", error |-> NoError]
    [] c = "r" -> [status |-> "error", result |-> "null",
                   error |-> [kind |-> "agent", n |-> 0, text |-> <<"agent failed">>]]
    [] OTHER   -> [status |-> "undefined", result |-> "undefined", error |-> NoError]

\* `Container timed out after ${timeoutMs}ms`
TimeoutOutput(ms) ==
  [status |-> "error", result |-> "null",
   error |-> [kind |-> "timeout", n |-> ms, text |-> <<>>]]

ExitOutput_WholeStderr(c, err) ==
  [status |-> "error", result |-> "null",
   error |-> [kind |-> "exit", n |-> c, text |-> err]]

\* `Container exited with code ${code}: ${stderr.slice(-200)}`
ExitOutput(c, err) ==
  [status |-> "error", result |-> "null",
   error |-> [kind |-> "exit", n |-> c, text |-> SliceLast(err, ERROR_TAIL)]]

\* `Failed to parse container output: ${err.message}`
ParseFailureOutput(msg) ==
  [status |-> "error", result |-> "null",
   error |-> [kind |-> "parse", n |-> 0,
              text |-> <<"Failed to parse container output: ", msg>>]]

(***************************************************************************)
(* The pure parts of runContainerAgent.                                    *)
(***************************************************************************)
\* group.containerConfig?.timeout: <<>> is "not set", <<n>> is the number n
TimeoutConfigs == {<<>>, <<0>>, <<2>>}

timeoutMs_IgnoreConfig(cfg) == CONTAINER_TIMEOUT

\* const timeoutMs = group.containerConfig?.timeout || CONTAINER_TIMEOUT
timeoutMs(cfg) ==
  IF cfg # <<>> /\ cfg[1] # 0 THEN cfg[1] ELSE CONTAINER_TIMEOUT

collectChunk_CapReached(text, truncated, chunk) ==
  IF truncated
  THEN [text |-> text, truncated |-> TRUE]
  ELSE LET remaining == CONTAINER_MAX_OUTPUT_SIZE - Len(text)
       IN IF Len(chunk) >= remaining
          THEN [text |-> text \o Slice(chunk, 0, remaining), truncated |-> TRUE]
          ELSE [text |-> text \o chunk, truncated |-> FALSE]

\* one iteration of collectStream's loop on a chunk: what is retained of it
collectChunk(text, truncated, chunk) ==
  IF truncated
  THEN [text |-> text, truncated |-> TRUE]
  ELSE LET remaining == CONTAINER_MAX_OUTPUT_SIZE - Len(text)
       IN IF Len(chunk) > remaining
          THEN [text |-> text \o Slice(chunk, 0, remaining), truncated |-> TRUE]
          ELSE [text |-> text \o chunk, truncated |-> FALSE]

fallbackLine_FirstLine(out) == Split(Trim(out))[1]

\* the fallback: lines = stdout.trim().split('\n'); lines[lines.length - 1]
fallbackLine(out) ==
  LET lines == Split(Trim(out))
  IN lines[Len(lines)]

extractJsonLine_NoTrim(out) ==
  LET startIdx == IndexOf(out, OUTPUT_START_MARKER)
      endIdx == IndexOf(out, OUTPUT_END_MARKER)
  IN IF startIdx # -1 /\ endIdx # -1 /\ endIdx > startIdx
     THEN Slice(out, startIdx + Len(OUTPUT_START_MARKER), endIdx)
     ELSE fallbackLine(out)

\* the candidate payload: between the markers, else the fallback line
extractJsonLine(out) ==
  LET startIdx == IndexOf(out, OUTPUT_START_MARKER)
      endIdx == IndexOf(out, OUTPUT_END_MARKER)
  IN IF startIdx # -1 /\ endIdx # -1 /\ endIdx > startIdx
     THEN Trim(Slice(out, startIdx + Len(OUTPUT_START_MARKER), endIdx))
     ELSE fallbackLine(out)

\* the try block: JSON.parse, then the logger.info that reads output.status
\* (a TypeError on null), then return output; the catch block turns either
\* exception into the parse-failure result
parseOutput(out) ==
  LET p == JSONParse(extractJsonLine(out))
  IN IF ~p.ok THEN ParseFailureOutput(p.value)
     ELSE IF p.value = "u" THEN ParseFailureOutput("TypeError")
     ELSE JsonObject(p.value)

branchOutput_ExitCodeFirst(to, c, out, err, ms) ==
  IF c # 0 THEN ExitOutput(c, err)
  ELSE IF to THEN TimeoutOutput(ms)
  ELSE parseOutput(out)

\* the value returned after `await container.exited`
branchOutput(to, c, out, err, ms) ==
  IF to THEN TimeoutOutput(ms)
  ELSE IF c # 0 THEN ExitOutput(c, err)
  ELSE parseOutput(out)

(***************************************************************************)
(* State.                                                                  *)
(***************************************************************************)
VARIABLES
  pc,               \* "idle", "running" (awaiting drains and exit), "returned", "thrown"
  timeoutCfg,       \* group.containerConfig?.timeout
  procKind,         \* how the spawned process behaves (environment)
  proc,             \* "none", "running", "exited" (container.exited resolved)
  code,             \* the exit code, meaningful once proc = "exited"
  timerArmed,       \* the setTimeout is pending
  timedOut,
  killed,           \* container.kill() has been called
  firedAfterExit,   \* history: the timer fired when the process had exited
  stdout, stderr,
  stdoutTruncated, stderrTruncated,
  outEnded, errEnded,   \* the channel's reader returned done
  sentOut, sentErr,     \* history: everything the channel delivered
  nOut, nErr,           \* history: chunks delivered
  logs,             \* RunRecord files written by this invocation
  parsed,           \* history: the try block was entered
  jsonLine,         \* the candidate payload
  output            \* the ContainerOutput returned

VARIABLES
  group,            \* the RegisteredGroup: name, folder, containerConfig.additionalMounts
  isMain,           \* input.isMain
  allowlist,        \* the mount allowlist the validator reads
  globalDirExists,  \* fs.existsSync(GROUPS_DIR/global)
  dotEnv,           \* <<>> when projectRoot/.env does not exist, else <<its content>>
  envTZ,            \* process.env.TZ, <<>> when unset or empty
  mounts,           \* the list returned by buildVolumeMounts
  containerArgs,    \* the list returned by buildContainerArgs, as passed to Bun.spawn
  envExport,        \* <<>> or <<content of DATA_DIR/env/env>>
  tasksFile,        \* per folder: <<>> or <<content of current_tasks.json>>
  groupsFile,       \* per folder: <<>> or <<content of available_groups.json>>
  tasksCall,        \* history, per folder: <<>> or <<last writeTasksSnapshot call>>
  groupsCall,       \* history, per folder: <<>> or <<last writeGroupsSnapshot call>>
  nWrites           \* history: snapshot writes made

VARIABLES
  runs,             \* per invocation of runContainerAgent: group.folder and position
  clock,            \* the reading of new Date(), in milliseconds
  wrote,            \* history, per invocation: the paths it created or wrote
  logFiles          \* the container-*.log files that exist

VARIABLES
  registeredGroups, \* per jid: <<>> or <<the RegisteredGroup>>
  pendingPairings,  \* per code: <<>> or <<the PendingPairing>>
  deps,             \* startTelegramBot has set the dependencies
  nIssued,          \* history, per code: times a /start or /register issued it
  nVerified,        \* history, per code: registrations verifyPairingCode made with it
  lastVerify,       \* history: <<>> or <<the last verifyPairingCode call>>
  lastStart         \* history: <<>> or <<the last /start or /register command>>

VARIABLES
  authPc,           \* the authentication script: "start", "waiting", "exited"
  attempt,          \* the argument of the authenticate call made last
  sock,             \* its socket: "none", "connecting", "open", "closed"
  credsRegistered,  \* state.creds.registered in store/auth
  exitTimer,        \* the setTimeout(() => process.exit(0), 1000) is pending
  retryTimer,       \* the RETRY_DELAY_MS wait before the next attempt is pending
  exitCode,         \* the argument of process.exit, -1 while running
  nSockets,         \* history: makeWASocket calls
  closes,           \* history: the reasons of the closes handled
  opened            \* history: attempts whose connection opened

VARIABLES
  store,              \* the messages storeGenericMessage has stored
  lastAgentTimestamp, \* per jid: the last-agent timestamp, 0 for none
  agentRun,           \* <<>> or <<the runAgent call processMessage awaits>>
  nMessages,          \* text messages the bot has received
  lastMessage,        \* history: <<>> or <<the last message received>>
  lastReturn,         \* history: <<>> or <<the last return of runAgent>>
  ran,                \* history: the messages that started an agent run
  unanswered          \* history, per jid: the prompt of its last run if that
                      \* run returned nothing

procVars == <<procKind, proc, code>>
timerVars == <<timerArmed, timedOut, killed, firedAfterExit>>
outVars == <<stdout, stdoutTruncated, outEnded, sentOut, nOut>>
errVars == <<stderr, stderrTruncated, errEnded, sentErr, nErr>>
endVars == <<logs, parsed, jsonLine, output>>
hostVars == <<group, isMain, allowlist, globalDirExists, dotEnv, envTZ>>
mountVars == <<mounts, containerArgs, envExport>>
snapVars == <<tasksFile, groupsFile, tasksCall, groupsCall, nWrites>>
runsVars == <<runs, clock, wrote, logFiles>>
pairVars == <<registeredGroups, pendingPairings, deps, nIssued, nVerified,
              lastVerify, lastStart>>
authVars == <<authPc, attempt, sock, credsRegistered, exitTimer, retryTimer,
              exitCode, nSockets, closes, opened>>
msgVars == <<store, lastAgentTimestamp, agentRun, nMessages, lastMessage,
             lastReturn, ran, unanswered>>
worldVars == <<runsVars, pairVars, authVars, msgVars>>
\* the variables of the single invocation modelled step by step and of the
\* snapshot writers
runVars == <<pc, timeoutCfg, procVars, timerVars, outVars, errVars, endVars,
             hostVars, mountVars, snapVars>>
vars == <<pc, timeoutCfg, procVars, timerVars, outVars, errVars, endVars,
          hostVars, mountVars, snapVars, worldVars>>

(***************************************************************************)
(* Host paths.  A path is the sequence of its segments below the root; the *)
(* folder names the program registers ("main", "tg-" followed by characters*)
(* of a-z0-9-) are single segments, so path.join appends them.             *)
(***************************************************************************)
homeDir == <<"home">>
\* process.cwd()
projectRoot == <<"home", "proj">>
GROUPS_DIR == projectRoot \o <<"groups">>
DATA_DIR == projectRoot \o <<"data">>
MAIN_GROUP_FOLDER == "main"

pathJoin(base, segments) == base \o segments

\* path p is root or lies under it
IsUnder(p, root) ==
  /\ Len(root) <= Len(p)
  /\ SubSeq(p, 1, Len(root)) = root

VolumeMount(h, c, ro) == [hostPath |-> h, containerPath |-> c, readonly |-> ro]

(***************************************************************************)
(* validateAdditionalMounts (mount-security.ts): the policy of the         *)
(* MountSecurityValidator.  An allowlist entry names a path, whether it    *)
(* allows read-write, and the tenant it is scoped to ("" for every tenant).*)
(***************************************************************************)
SensitivePaths == {homeDir \o <<".ssh">>, homeDir \o <<".aws">>}

IsSensitive(p) == \E s \in SensitivePaths : IsUnder(p, s)

\* the entries that cover the request for this tenant
matchingEntries(m, groupName) ==
  {e \in allowlist : IsUnder(m.hostPath, e.path) /\ e.tenant \in {"", groupName}}

validateMount(m, groupName) ==
  LET entries == matchingEntries(m, groupName)
  IN [allowed |-> ~IsSensitive(m.hostPath) /\ entries # {},
      readonly |-> m.readonly \/ (\E e \in entries : ~e.allowReadWrite)]

RECURSIVE validateAdditionalMounts(_, _, _)
validateAdditionalMounts(requested, groupName, main) ==
  IF requested = <<>>
  THEN <<>>
  ELSE LET m == Head(requested)
           v == validateMount(m, groupName)
           rest == validateAdditionalMounts(Tail(requested), groupName, main)
       IN IF v.allowed
          THEN <<VolumeMount(m.hostPath, m.containerPath, v.readonly)>> \o rest
          ELSE rest

(***************************************************************************)
(* The environment export.  One token stands for one variable name:        *)
(*   C  CLAUDE_CODE_OAUTH_TOKEN    A  ANTHROPIC_API_KEY                    *)
(*   P  any other name             T  TZ                                   *)
(* and v for a character of a value.                                       *)
(***************************************************************************)
allowedVars == {"C", "A"}

StartsWith(s, prefix) ==
  /\ Len(prefix) <= Len(s)
  /\ SubSeq(s, 1, Len(prefix)) = prefix

\* lines.join('\n')
RECURSIVE JoinLines(_)
JoinLines(lines) ==
  IF lines = <<>> THEN <<>>
  ELSE IF Len(lines) = 1 THEN lines[1]
  ELSE lines[1] \o <<"\n">> \o JoinLines(Tail(lines))

\* the callback of the filter over the lines of .env
keepEnvLine(line) ==
  LET trimmed == Trim(line)
  IN IF trimmed = <<>> \/ StartsWith(trimmed, <<"#">>)
     THEN FALSE
     ELSE \E v \in allowedVars : StartsWith(trimmed, <<v, "=">>)

filteredLines_KeepAll(envContent) == Split(envContent)

filteredLines(envContent) == SelectSeq(Split(envContent), keepEnvLine)

\* Intl.DateTimeFormat().resolvedOptions().timeZone
systemTZ == <<"s">>

hostTz == IF envTZ # <<>> THEN envTZ ELSE systemTZ

envLines ==
  (IF dotEnv # <<>> THEN filteredLines(dotEnv[1]) ELSE <<>>)
    \o << <<"T", "=">> \o hostTz >>

\* what fs.writeFileSync(path.join(envDir, 'env'), ...) writes
envFileContent == JoinLines(envLines) \o <<"\n">>

(***************************************************************************)
(* buildVolumeMounts and buildContainerArgs.                               *)
(***************************************************************************)
groupDir(folder) == pathJoin(GROUPS_DIR, <<folder>>)
globalDir == pathJoin(GROUPS_DIR, <<"global">>)
groupSessionsDir(folder) == pathJoin(DATA_DIR, <<"sessions", folder, ".claude">>)
groupIpcDir(folder) == pathJoin(DATA_DIR, <<"ipc", folder>>)
envDir == pathJoin(DATA_DIR, <<"env">>)

roleMounts_ProjectForAll(g, main) ==
  <<VolumeMount(projectRoot, "/workspace/project", FALSE),
    VolumeMount(groupDir(g.folder), "/workspace/group", FALSE)>>

\* the if (isMain) ... else ... at the head of buildVolumeMounts
roleMounts(g, main) ==
  IF main
  THEN <<VolumeMount(projectRoot, "/workspace/project", FALSE),
         VolumeMount(groupDir(g.folder), "/workspace/group", FALSE)>>
  ELSE <<VolumeMount(groupDir(g.folder), "/workspace/group", FALSE)>>
         \o (IF globalDirExists
             THEN <<VolumeMount(globalDir, "/workspace/global", TRUE)>>
             ELSE <<>>)

\* the session, IPC and environment-export mounts every tenant gets
tenantMounts(g) ==
  <<VolumeMount(groupSessionsDir(g.folder), "/home/node/.claude", FALSE),
    VolumeMount(groupIpcDir(g.folder), "/workspace/ipc", FALSE),
    VolumeMount(envDir, "/workspace/env-dir", TRUE)>>

validatedMounts_Unvalidated(g, main) == g.additionalMounts

\* the if (group.containerConfig?.additionalMounts) block
validatedMounts(g, main) ==
  validateAdditionalMounts(g.additionalMounts, g.name, main)

buildVolumeMounts(g, main) ==
  roleMounts(g, main) \o tenantMounts(g) \o validatedMounts(g, main)

ContainerArg(o, s, t, ro) == [opt |-> o, source |-> s, target |-> t, readonly |-> ro]

Word(w) == ContainerArg(w, <<>>, "", FALSE)

mountArg_AlwaysVolume(m) == ContainerArg("-v", m.hostPath, m.containerPath, FALSE)

\* the body of the loop: --mount ...,readonly for a read-only mount, -v else
mountArg(m) ==
  IF m.readonly
  THEN ContainerArg("--mount", m.hostPath, m.containerPath, TRUE)
  ELSE ContainerArg("-v", m.hostPath, m.containerPath, FALSE)

buildContainerArgs(ms) ==
  <<Word("run"), Word("-i"), Word("--rm")>>
    \o [i \in 1..Len(ms) |-> mountArg(ms[i])]
    \o <<Word("CONTAINER_IMAGE")>>

(***************************************************************************)
(* The snapshot writers.                                                   *)
(***************************************************************************)
Folders == {MAIN_GROUP_FOLDER, "tg-a", "tg-b"}

filteredTasks_All(groupFolder, main, tasks) == tasks

filteredTasks(groupFolder, main, tasks) ==
  LET own(t) == t.groupFolder = groupFolder
  IN IF main THEN tasks ELSE SelectSeq(tasks, own)

visibleGroups_All(main, groups) == groups

visibleGroups(main, groups) == IF main THEN groups ELSE <<>>

\* exits:       the process ends by itself
\* killable:    it runs until it is signalled, and the signal ends it
\* unkillable:  it runs for ever and does not react to the signal
\* leaksStdout: it ends by itself, a descendant keeps its stdout open
ProcKinds == {"exits", "killable", "unkillable", "leaksStdout"}

ExitCodes == 0..MaxExitCode

WrappedResult == OUTPUT_START_MARKER \o <<"j">> \o OUTPUT_END_MARKER

\* what the lifecycle specification lets the process write
StdoutChunks == {<<"j">>, <<"x", "\n", "k">>, WrappedResult}
StderrChunks == {<<"a">>, <<"b", "c", "d">>, <<"t", "u", "v", "w", "x", "y", "z">>}

Invocations == 1..MaxInvocations

\* no invocation under way, no log file yet
NoRuns ==
  /\ runs = [i \in Invocations |-> [folder |-> "tg-a", phase |-> "idle"]]
  /\ clock = 0
  /\ wrote = [i \in Invocations |-> {}]
  /\ logFiles = {}

\* chats and groups the platforms know
TelegramJids == {"telegram:1", "telegram:2"}
WhatsAppJids == {"wa1@g.us", "wa2@g.us"}
Jids == TelegramJids \cup WhatsAppJids

\* generatePairingCode draws one of these
Codes == 1..MaxCodes

\* nobody registered, no code pending, the bot not started
NoPairings ==
  /\ registeredGroups = [j \in Jids |-> <<>>]
  /\ pendingPairings = [c \in Codes |-> <<>>]
  /\ deps = FALSE
  /\ nIssued = [c \in Codes |-> 0]
  /\ nVerified = [c \in Codes |-> 0]
  /\ lastVerify = <<>>
  /\ lastStart = <<>>

\* the authentication script not running
NoAuth ==
  /\ authPc = "exited"
  /\ attempt = 0
  /\ sock = "none"
  /\ credsRegistered = FALSE
  /\ exitTimer = FALSE
  /\ retryTimer = FALSE
  /\ exitCode = 0
  /\ nSockets = 0
  /\ closes = <<>>
  /\ opened = {}

\* no message received
NoMessages ==
  /\ store = {}
  /\ lastAgentTimestamp = [j \in Jids |-> 0]
  /\ agentRun = <<>>
  /\ nMessages = 0
  /\ lastMessage = <<>>
  /\ lastReturn = <<>>
  /\ ran = {}
  /\ unanswered = [j \in Jids |-> {}]

QuietWorld == NoRuns /\ NoPairings /\ NoAuth /\ NoMessages

\* a tenant without extra mounts on a host without .env
DefaultGroup == [name |-> "tg-a", folder |-> "tg-a", additionalMounts |-> <<>>]

HostDefault ==
  /\ group = DefaultGroup
  /\ isMain = FALSE
  /\ allowlist = {}
  /\ globalDirExists = FALSE
  /\ dotEnv = <<>>
  /\ envTZ = <<>>

\* nothing built, nothing written
NotStarted ==
  /\ mounts = <<>>
  /\ containerArgs = <<>>
  /\ envExport = <<>>

\* what runContainerAgent has built and written before it spawns
Started ==
  /\ mounts = buildVolumeMounts(group, isMain)
  /\ containerArgs = buildContainerArgs(mounts)
  /\ envExport = <<envFileContent>>

NoSnapshots ==
  /\ tasksFile = [f \in Folders |-> <<>>]
  /\ groupsFile = [f \in Folders |-> <<>>]
  /\ tasksCall = [f \in Folders |-> <<>>]
  /\ groupsCall = [f \in Folders |-> <<>>]
  /\ nWrites = 0

Init ==
  /\ QuietWorld
  /\ pc = "idle"
  /\ HostDefault /\ NotStarted /\ NoSnapshots
  /\ timeoutCfg \in TimeoutConfigs
  /\ procKind \in ProcKinds
  /\ proc = "none"
  /\ code = 0
  /\ timerArmed = FALSE
  /\ timedOut = FALSE
  /\ killed = FALSE
  /\ firedAfterExit = FALSE
  /\ stdout = <<>> /\ stderr = <<>>
  /\ stdoutTruncated = FALSE /\ stderrTruncated = FALSE
  /\ outEnded = FALSE /\ errEnded = FALSE
  /\ sentOut = <<>> /\ sentErr = <<>>
  /\ nOut = 0 /\ nErr = 0
  /\ logs = <<>>
  /\ parsed = FALSE
  /\ jsonLine = <<>>
  /\ output = NoResult

(***************************************************************************)
(* Actions.                                                                *)
(***************************************************************************)
\* runContainerAgent up to its first await: buildVolumeMounts (which writes
\* the environment export) and buildContainerArgs; Bun.spawn either throws
\* (the promise of the async function is rejected) or yields the process;
\* then the timer is set and both collectStream calls run up to their first
\* read
Start ==
  /\ pc = "idle"
  /\ mounts' = buildVolumeMounts(group, isMain)
  /\ containerArgs' = buildContainerArgs(mounts')
  /\ envExport' = <<envFileContent>>
  /\ \E spawned \in BOOLEAN :
       IF spawned
       THEN /\ pc' = "running"
            /\ proc' = "running"
            /\ timerArmed' = TRUE
       ELSE /\ pc' = "thrown"
            /\ UNCHANGED <<proc, timerArmed>>
  /\ UNCHANGED <<timeoutCfg, procKind, code, timedOut, killed, firedAfterExit,
                 outVars, errVars, endVars, hostVars, snapVars, worldVars>>

ReadStdout_StopAtCap(chunk) ==
  /\ pc = "running"
  /\ ~outEnded
  /\ ~stdoutTruncated
  /\ LET r == collectChunk(stdout, stdoutTruncated, chunk)
     IN /\ stdout' = r.text
        /\ stdoutTruncated' = r.truncated
  /\ sentOut' = sentOut \o chunk
  /\ nOut' = nOut + 1
  /\ UNCHANGED <<pc, timeoutCfg, procVars, timerVars, outEnded, errVars, endVars,
                 hostVars, mountVars, snapVars, worldVars>>

\* collectStream(container.stdout, true): reader.read() yields a chunk
ReadStdout(chunk) ==
  /\ pc = "running"
  /\ ~outEnded
  /\ LET r == collectChunk(stdout, stdoutTruncated, chunk)
     IN /\ stdout' = r.text
        /\ stdoutTruncated' = r.truncated
  /\ sentOut' = sentOut \o chunk
  /\ nOut' = nOut + 1
  /\ UNCHANGED <<pc, timeoutCfg, procVars, timerVars, outEnded, errVars, endVars,
                 hostVars, mountVars, snapVars, worldVars>>

\* collectStream(container.stderr, false): reader.read() yields a chunk
ReadStderr(chunk) ==
  /\ pc = "running"
  /\ ~errEnded
  /\ LET r == collectChunk(stderr, stderrTruncated, chunk)
     IN /\ stderr' = r.text
        /\ stderrTruncated' = r.truncated
  /\ sentErr' = sentErr \o chunk
  /\ nErr' = nErr + 1
  /\ UNCHANGED <<pc, timeoutCfg, procVars, timerVars, errEnded, outVars, endVars,
                 hostVars, mountVars, snapVars, worldVars>>

\* reader.read() yields done on stdout
EndStdout ==
  /\ pc = "running"
  /\ ~outEnded
  /\ procKind # "leaksStdout"
  /\ outEnded' = TRUE
  /\ UNCHANGED <<pc, timeoutCfg, procVars, timerVars, stdout, stdoutTruncated,
                 sentOut, nOut, errVars, endVars, hostVars, mountVars, snapVars, worldVars>>

\* reader.read() yields done on stderr
EndStderr ==
  /\ pc = "running"
  /\ ~errEnded
  /\ errEnded' = TRUE
  /\ UNCHANGED <<pc, timeoutCfg, procVars, timerVars, stderr, stderrTruncated,
                 sentErr, nErr, outVars, endVars, hostVars, mountVars, snapVars, worldVars>>

\* the process ends and container.exited resolves to its exit code
ProcExit(c) ==
  /\ pc = "running"
  /\ proc = "running"
  /\ \/ procKind \in {"exits", "leaksStdout"}
     \/ procKind = "killable" /\ killed
  /\ proc' = "exited"
  /\ code' = c
  /\ UNCHANGED <<pc, timeoutCfg, procKind, timerVars, outVars, errVars, endVars,
                 hostVars, mountVars, snapVars, worldVars>>

\* both collectStream promises are settled and container.exited is resolved:
\* the continuation up to the return runs in the same microtask drain
Settled == outEnded /\ errEnded /\ proc = "exited"

\* the setTimeout callback
Timeout ==
  /\ pc = "running"
  /\ timerArmed
  /\ ~Settled
  /\ timerArmed' = FALSE
  /\ timedOut' = TRUE
  /\ killed' = TRUE
  /\ firedAfterExit' = (proc = "exited")
  /\ UNCHANGED <<pc, timeoutCfg, procVars, outVars, errVars, endVars,
                 hostVars, mountVars, snapVars, worldVars>>

\* the RunRecord written by fs.writeFileSync(logFile, ...)
RunRecord ==
  [exitCode |-> code,
   stdoutTruncated |-> stdoutTruncated,
   stderrTruncated |-> stderrTruncated]

\* after `await Promise.all` and `await container.exited`: clearTimeout, the
\* timeout branch, the log file (whose write may throw), the exit-code
\* branch, the extraction and the parse
Finish ==
  /\ pc = "running"
  /\ Settled
  /\ timerArmed' = FALSE
  /\ IF timedOut
     THEN /\ pc' = "returned"
          /\ output' = branchOutput(timedOut, code, stdout, stderr, timeoutMs(timeoutCfg))
          /\ UNCHANGED <<logs, parsed, jsonLine>>
     ELSE \E written \in BOOLEAN :
            IF ~written
            THEN /\ pc' = "thrown"
                 /\ UNCHANGED <<logs, parsed, jsonLine, output>>
            ELSE /\ pc' = "returned"
                 /\ logs' = Append(logs, RunRecord)
                 /\ parsed' = (code = 0)
                 /\ jsonLine' = IF code = 0 THEN extractJsonLine(stdout) ELSE jsonLine
                 /\ output' = branchOutput(timedOut, code, stdout, stderr,
                                           timeoutMs(timeoutCfg))
  /\ UNCHANGED <<timeoutCfg, procVars, timedOut, killed, firedAfterExit,
                 outVars, errVars, hostVars, mountVars, snapVars, worldVars>>

Next ==
  \/ Start
  \/ \E chunk \in StdoutChunks : nOut < MaxChunks /\ ReadStdout(chunk)
  \/ \E chunk \in StderrChunks : nErr < MaxChunks /\ ReadStderr(chunk)
  \/ EndStdout
  \/ EndStderr
  \/ \E c \in ExitCodes : ProcExit(c)
  \/ Timeout
  \/ Finish

Spec == Init /\ [][Next]_vars

(***************************************************************************)
(* The drains alone: the state right after a successful Start, then any    *)
(* chunks on either channel.                                               *)
(***************************************************************************)
Letters == {"a", "b"}

CollectChunks == {[i \in 1..n |-> c] : n \in 0..MaxChunkLen, c \in Letters}

InitCollect ==
  /\ QuietWorld
  /\ pc = "running"
  /\ HostDefault /\ Started /\ NoSnapshots
  /\ timeoutCfg = <<>>
  /\ procKind = "exits"
  /\ proc = "running"
  /\ code = 0
  /\ timerArmed = TRUE
  /\ timedOut = FALSE
  /\ killed = FALSE
  /\ firedAfterExit = FALSE
  /\ stdout = <<>> /\ stderr = <<>>
  /\ stdoutTruncated = FALSE /\ stderrTruncated = FALSE
  /\ outEnded = FALSE /\ errEnded = FALSE
  /\ sentOut = <<>> /\ sentErr = <<>>
  /\ nOut = 0 /\ nErr = 0
  /\ logs = <<>>
  /\ parsed = FALSE
  /\ jsonLine = <<>>
  /\ output = NoResult

NextCollect ==
  \/ \E chunk \in CollectChunks : nOut + nErr < MaxCollectChunks /\ ReadStdout(chunk)
  \/ \E chunk \in CollectChunks : nOut + nErr < MaxCollectChunks /\ ReadStderr(chunk)
  \/ EndStdout
  \/ EndStderr

SpecCollect == InitCollect /\ [][NextCollect]_vars

(***************************************************************************)
(* The end of a run alone: the process has exited, both drains have ended  *)
(* and stdout holds any text built from a few pieces.                      *)
(***************************************************************************)
Pieces ==
  {OUTPUT_START_MARKER, OUTPUT_END_MARKER, <<" ", "j", "\n">>,
   <<"j">>, <<"r">>, <<"k">>, <<"u">>, <<"x">>, <<"\n">>, <<" ">>, <<"-">>, <<"e">>}

RECURSIVE Concats(_)
Concats(n) ==
  IF n = 0
  THEN {<<>>}
  ELSE LET shorter == Concats(n - 1)
       IN shorter \cup {p \o q : p \in shorter, q \in Pieces}

\* captured text never exceeds the cap
CapturedTexts == {t \in Concats(MaxPieces) : Len(t) <= CONTAINER_MAX_OUTPUT_SIZE}

InitExtract ==
  /\ QuietWorld
  /\ pc = "running"
  /\ HostDefault /\ Started /\ NoSnapshots
  /\ timeoutCfg = <<>>
  /\ procKind = "exits"
  /\ proc = "exited"
  /\ code \in ExitCodes
  /\ timerArmed = TRUE
  /\ timedOut = FALSE
  /\ killed = FALSE
  /\ firedAfterExit = FALSE
  /\ stdout \in CapturedTexts
  /\ stderr = <<>>
  /\ stdoutTruncated = FALSE /\ stderrTruncated = FALSE
  /\ outEnded = TRUE /\ errEnded = TRUE
  /\ sentOut = stdout /\ sentErr = <<>>
  /\ nOut = (IF stdout = <<>> THEN 0 ELSE 1) /\ nErr = 0
  /\ logs = <<>>
  /\ parsed = FALSE
  /\ jsonLine = <<>>
  /\ output = NoResult

NextExtract == Finish

SpecExtract == InitExtract /\ [][NextExtract]_vars

(***************************************************************************)
(* The mount plan alone: any tenant, any allowlist and any short list of   *)
(* requested extra mounts; the step is the head of runContainerAgent.      *)
(***************************************************************************)
docs == homeDir \o <<"docs">>

\* host paths a tenant asks for: sensitive ones, allowlisted ones and the IPC
\* directory of another tenant
RequestPaths ==
  {homeDir \o <<".ssh">>, homeDir \o <<".ssh", "id">>, docs, docs \o <<"a">>,
   groupIpcDir("tg-b")}

ExtraRequests ==
  {VolumeMount(h, "/workspace/extra", FALSE) : h \in RequestPaths}
    \cup {VolumeMount(docs, "/workspace/extra", TRUE),
          VolumeMount(docs, "/workspace/group", FALSE)}

RequestLists ==
  UNION {[1..n -> ExtraRequests] : n \in 0..MaxExtraMounts}

AllowlistEntry(p, rw, t) == [path |-> p, allowReadWrite |-> rw, tenant |-> t]

Allowlists ==
  {{},
   {AllowlistEntry(docs, FALSE, "")},
   {AllowlistEntry(docs, TRUE, "")},
   {AllowlistEntry(docs, TRUE, "tg-a")},
   {AllowlistEntry(homeDir, TRUE, "")},
   {AllowlistEntry(homeDir, TRUE, ""), AllowlistEntry(docs, FALSE, "")}}

Groups ==
  {[name |-> f, folder |-> f, additionalMounts |-> r] :
     f \in Folders, r \in RequestLists}

InitMounts ==
  /\ pc = "idle"
  /\ group \in Groups
  /\ isMain = (group.folder = MAIN_GROUP_FOLDER)
  /\ allowlist \in Allowlists
  /\ globalDirExists \in BOOLEAN
  /\ dotEnv = <<>>
  /\ envTZ = <<>>
  /\ NotStarted /\ NoSnapshots
  /\ QuietWorld
  /\ timeoutCfg = <<>>
  /\ procKind = "exits"
  /\ proc = "none"
  /\ code = 0
  /\ timerArmed = FALSE
  /\ timedOut = FALSE
  /\ killed = FALSE
  /\ firedAfterExit = FALSE
  /\ stdout = <<>> /\ stderr = <<>>
  /\ stdoutTruncated = FALSE /\ stderrTruncated = FALSE
  /\ outEnded = FALSE /\ errEnded = FALSE
  /\ sentOut = <<>> /\ sentErr = <<>>
  /\ nOut = 0 /\ nErr = 0
  /\ logs = <<>>
  /\ parsed = FALSE
  /\ jsonLine = <<>>
  /\ output = NoResult

NextMounts == Start

SpecMounts == InitMounts /\ [][NextMounts]_vars

(***************************************************************************)
(* The snapshot writers alone: any sequence of writeTasksSnapshot and      *)
(* writeGroupsSnapshot calls.  The file of a folder stands for             *)
(* DATA_DIR/ipc/<folder>/current_tasks.json (available_groups.json).       *)
(***************************************************************************)
Tasks ==
  {[id |-> "t1", groupFolder |-> "tg-a"], [id |-> "t2", groupFolder |-> "tg-b"]}

TaskLists == UNION {[1..n -> Tasks] : n \in 0..MaxTasks}

AvailableGroups ==
  <<[jid |-> "jid-a", isRegistered |-> TRUE], [jid |-> "jid-x", isRegistered |-> FALSE]>>

GroupLists == {<<>>, AvailableGroups}

writeTasksSnapshot(groupFolder, main, tasks) ==
  /\ tasksFile' = [tasksFile EXCEPT ![groupFolder] =
                     <<filteredTasks(groupFolder, main, tasks)>>]
  /\ tasksCall' = [tasksCall EXCEPT ![groupFolder] =
                     <<[isMain |-> main, tasks |-> tasks]>>]
  /\ nWrites' = nWrites + 1
  /\ UNCHANGED <<groupsFile, groupsCall>>
  /\ UNCHANGED <<pc, timeoutCfg, procVars, timerVars, outVars, errVars, endVars,
                 hostVars, mountVars, worldVars>>

writeGroupsSnapshot(groupFolder, main, groups, registeredJids) ==
  /\ groupsFile' = [groupsFile EXCEPT ![groupFolder] =
                      <<[groups |-> visibleGroups(main, groups), lastSync |-> "now"]>>]
  /\ groupsCall' = [groupsCall EXCEPT ![groupFolder] =
                      <<[isMain |-> main, groups |-> groups]>>]
  /\ nWrites' = nWrites + 1
  /\ UNCHANGED <<tasksFile, tasksCall>>
  /\ UNCHANGED <<pc, timeoutCfg, procVars, timerVars, outVars, errVars, endVars,
                 hostVars, mountVars, worldVars>>

NextSnapshots ==
  \/ \E f \in Folders, main \in BOOLEAN, tasks \in TaskLists :
       nWrites < MaxSnapshotWrites /\ writeTasksSnapshot(f, main, tasks)
  \/ \E f \in Folders, main \in BOOLEAN, groups \in GroupLists :
       nWrites < MaxSnapshotWrites /\ writeGroupsSnapshot(f, main, groups, {"jid-a"})

InitSnapshots ==
  /\ Init
  /\ timeoutCfg = <<>>
  /\ procKind = "exits"

SpecSnapshots == InitSnapshots /\ [][NextSnapshots]_vars

(***************************************************************************)
(* The environment export alone: any .env built from a few lines, the TZ   *)
(* variable set or not; the step is the head of runContainerAgent.         *)
(***************************************************************************)
EnvFileLines ==
  {<<"A", "=", "v">>, <<" ", "C", "=", "v", " ">>, <<"C", "=">>,
   <<"P", "=", "v">>, <<"T", "=", "v">>, <<"#", "A", "=", "v">>,
   <<" ", "#">>, <<>>, <<" ">>, <<"A">>, <<"A", "v", "=", "v">>,
   <<"P", " ", "A", "=", "v">>}

EnvFiles ==
  {JoinLines(ls) : ls \in UNION {[1..n -> EnvFileLines] : n \in 1..MaxEnvLines}}

InitEnv ==
  /\ pc = "idle"
  /\ group = DefaultGroup
  /\ isMain = FALSE
  /\ allowlist = {}
  /\ globalDirExists = FALSE
  /\ dotEnv \in {<<>>} \cup {<<c>> : c \in EnvFiles}
  /\ envTZ \in {<<>>, <<"o">>}
  /\ NotStarted /\ NoSnapshots
  /\ QuietWorld
  /\ timeoutCfg = <<>>
  /\ procKind = "exits"
  /\ proc = "none"
  /\ code = 0
  /\ timerArmed = FALSE
  /\ timedOut = FALSE
  /\ killed = FALSE
  /\ firedAfterExit = FALSE
  /\ stdout = <<>> /\ stderr = <<>>
  /\ stdoutTruncated = FALSE /\ stderrTruncated = FALSE
  /\ outEnded = FALSE /\ errEnded = FALSE
  /\ sentOut = <<>> /\ sentErr = <<>>
  /\ nOut = 0 /\ nErr = 0
  /\ logs = <<>>
  /\ parsed = FALSE
  /\ jsonLine = <<>>
  /\ output = NoResult

NextEnv == Start

SpecEnv == InitEnv /\ [][NextEnv]_vars

(***************************************************************************)
(* Several invocations of runContainerAgent at once.  Each is cut in two   *)
(* steps: its head up to the spawn, which creates the directories and      *)
(* writes the environment export, and its tail after the last await, which *)
(* reads the clock and writes the log file unless the run timed out.       *)
(***************************************************************************)
\* the single invocation, not started
IdleRun ==
  /\ pc = "idle"
  /\ HostDefault /\ NotStarted /\ NoSnapshots
  /\ timeoutCfg = <<>>
  /\ procKind = "exits"
  /\ proc = "none"
  /\ code = 0
  /\ timerArmed = FALSE
  /\ timedOut = FALSE
  /\ killed = FALSE
  /\ firedAfterExit = FALSE
  /\ stdout = <<>> /\ stderr = <<>>
  /\ stdoutTruncated = FALSE /\ stderrTruncated = FALSE
  /\ outEnded = FALSE /\ errEnded = FALSE
  /\ sentOut = <<>> /\ sentErr = <<>>
  /\ nOut = 0 /\ nErr = 0
  /\ logs = <<>>
  /\ parsed = FALSE
  /\ jsonLine = <<>>
  /\ output = NoResult

logsDir(folder) == pathJoin(GROUPS_DIR, <<folder, "logs">>)

\* new Date().toISOString().replace(/[:.]/g, '-'): one text per millisecond
timestamp(t) == ToString(t)

logFile(folder, t) ==
  pathJoin(logsDir(folder), <<"container-" \o timestamp(t) \o ".log">>)

\* what the head of runContainerAgent creates (mkdirSync) and writes
headWrites(folder) ==
  {groupDir(folder),
   groupSessionsDir(folder),
   pathJoin(groupIpcDir(folder), <<"messages">>),
   pathJoin(groupIpcDir(folder), <<"tasks">>),
   envDir,
   pathJoin(envDir, <<"env">>),
   logsDir(folder)}

RunHead(i) ==
  /\ runs[i].phase = "idle"
  /\ runs' = [runs EXCEPT ![i].phase = "running"]
  /\ wrote' = [wrote EXCEPT ![i] = headWrites(runs[i].folder)]
  /\ UNCHANGED <<clock, logFiles>>
  /\ UNCHANGED <<runVars, pairVars, authVars, msgVars>>

\* the tail: the timeout branch returns before the log file is named
RunTail(i, to) ==
  /\ runs[i].phase = "running"
  /\ IF to
     THEN /\ runs' = [runs EXCEPT ![i].phase = "returned"]
          /\ UNCHANGED <<wrote, logFiles>>
     ELSE /\ runs' = [runs EXCEPT ![i].phase = "logged"]
          /\ wrote' = [wrote EXCEPT ![i] = @ \cup {logFile(runs[i].folder, clock)}]
          /\ logFiles' = logFiles \cup {logFile(runs[i].folder, clock)}
  /\ UNCHANGED clock
  /\ UNCHANGED <<runVars, pairVars, authVars, msgVars>>

\* a millisecond passes
Tick ==
  /\ clock < MaxClock
  /\ clock' = clock + 1
  /\ UNCHANGED <<runs, wrote, logFiles>>
  /\ UNCHANGED <<runVars, pairVars, authVars, msgVars>>

InitRuns ==
  /\ IdleRun
  /\ runs \in [Invocations -> {[folder |-> f, phase |-> "idle"] : f \in Folders}]
  /\ clock = 0
  /\ wrote = [i \in Invocations |-> {}]
  /\ logFiles = {}
  /\ NoPairings
  /\ NoAuth
  /\ NoMessages

NextRuns ==
  \/ \E i \in Invocations : RunHead(i)
  \/ \E i \in Invocations, to \in BOOLEAN : RunTail(i, to)
  \/ Tick

SpecRuns == InitRuns /\ [][NextRuns]_vars

(***************************************************************************)
(* Registration: the register-group script, the /start and /register       *)
(* command of the Telegram bot, and verifyPairingCode.  A chat title is a  *)
(* sequence of characters; A and B stand for upper-case letters, the blank *)
(* and the underscore for characters outside a-z0-9.                       *)
(***************************************************************************)
MainFolder == <<"m", "a", "i", "n">>

AlphaNum == {"a", "b", "c", "d", "0"}

\* two titles that differ in case, in the characters outside a-z0-9 and in
\* what follows the slice
Titles == {<<"A", " ", "b", "c">>, <<"a", "_", "_", "b", "d">>}

toLowerCase(s) ==
  [i \in 1..Len(s) |-> CASE s[i] = "A" -> "a" [] s[i] = "B" -> "b" [] OTHER -> s[i]]

RECURSIVE SkipNonAlphaNum(_)
SkipNonAlphaNum(s) ==
  IF s # <<>> /\ Head(s) \notin AlphaNum THEN SkipNonAlphaNum(Tail(s)) ELSE s

\* s.replace(/[^a-z0-9]+/g, '-'): every run of other characters becomes one dash
RECURSIVE replaceNonAlphaNum(_)
replaceNonAlphaNum(s) ==
  IF s = <<>> THEN <<>>
  ELSE IF Head(s) \in AlphaNum
  THEN <<Head(s)>> \o replaceNonAlphaNum(Tail(s))
  ELSE <<"-">> \o replaceNonAlphaNum(SkipNonAlphaNum(Tail(s)))

\* `tg-${chatTitle.toLowerCase().replace(/[^a-z0-9]+/g, '-').slice(0, 20)}`
folderName(chatTitle) ==
  LET t == replaceNonAlphaNum(toLowerCase(chatTitle))
  IN <<"t", "g", "-">> \o Slice(t, 0, MinOf({FOLDER_SLICE, Len(t)}))

expired_Never(pairing, now) == FALSE

\* the test of cleanupExpiredPairings
expired(pairing, now) == pairing.expiresAt < now

\* the table cleanupExpiredPairings leaves
cleanupExpiredPairings(table, now) ==
  [c \in Codes |->
     IF table[c] # <<>> /\ expired(table[c][1], now) THEN <<>> ELSE table[c]]

\* the register-group script, run to the end with the group jid chosen
RegisterMain(jid) ==
  /\ registeredGroups' =
       [registeredGroups EXCEPT ![jid] = <<[name |-> <<"w">>, folder |-> MainFolder]>>]
  /\ UNCHANGED <<pendingPairings, deps, nIssued, nVerified, lastVerify, lastStart>>
  /\ UNCHANGED <<runVars, runsVars, authVars, msgVars>>

startTelegramBot ==
  /\ ~deps
  /\ deps' = TRUE
  /\ UNCHANGED <<registeredGroups, pendingPairings, nIssued, nVerified,
                 lastVerify, lastStart>>
  /\ UNCHANGED <<runVars, runsVars, authVars, msgVars>>

\* the codes pending for a chat
CodesOf(table, jid) == {c \in Codes : table[c] # <<>> /\ table[c][1].jid = jid}

\* one /start as the chat sees it: whether it was registered, the unexpired
\* codes it had, the code replied (0 for none), the table entries the
\* command created or replaced, and the other chats whose unexpired entry
\* it removed or replaced
StartCall(jid, had, reply) ==
  <<[wasRegistered |-> registeredGroups[jid] # <<>>, had |-> had,
     reply |-> reply,
     added |-> {c \in Codes : /\ pendingPairings'[c] # <<>>
                              /\ pendingPairings'[c] # pendingPairings[c]},
     lost |-> {j \in Jids \ {jid} :
                 \E c \in Codes : /\ pendingPairings[c] # <<>>
                                  /\ pendingPairings[c][1].jid = j
                                  /\ pendingPairings[c][1].expiresAt >= clock
                                  /\ pendingPairings'[c] # pendingPairings[c]}]>>

StartCommand_NoPendingCheck(jid, chatTitle, pairingCode) ==
  /\ deps
  /\ LET cleaned == cleanupExpiredPairings(pendingPairings, clock)
         mine == CodesOf(cleaned, jid)
     IN /\ IF registeredGroups[jid] # <<>>
           THEN /\ UNCHANGED <<pendingPairings, nIssued>>
                /\ lastStart' = StartCall(jid, mine, 0)
           ELSE /\ pendingPairings' =
                     [cleaned EXCEPT ![pairingCode] =
                        <<[jid |-> jid, chatTitle |-> chatTitle,
                           expiresAt |-> clock + PAIRING_CODE_EXPIRY_MS]>>]
                /\ nIssued' = [nIssued EXCEPT ![pairingCode] = @ + 1]
                /\ lastStart' = StartCall(jid, mine, pairingCode)
  /\ UNCHANGED <<registeredGroups, deps, nVerified, lastVerify>>
  /\ UNCHANGED <<runVars, runsVars, authVars, msgVars>>

\* bot.command(['start', 'register'], ...): code is what generatePairingCode
\* draws if it is called
StartCommand(jid, chatTitle, pairingCode) ==
  /\ deps
  /\ LET cleaned == cleanupExpiredPairings(pendingPairings, clock)
         mine == CodesOf(cleaned, jid)
     IN /\ IF registeredGroups[jid] # <<>>
           THEN /\ UNCHANGED <<pendingPairings, nIssued>>
                /\ lastStart' = StartCall(jid, mine, 0)
           ELSE IF mine # {}
           THEN /\ pendingPairings' = cleaned
                /\ UNCHANGED nIssued
                /\ lastStart' = StartCall(jid, mine, CHOOSE c \in mine : TRUE)
           ELSE /\ pendingPairings' =
                     [cleaned EXCEPT ![pairingCode] =
                        <<[jid |-> jid, chatTitle |-> chatTitle,
                           expiresAt |-> clock + PAIRING_CODE_EXPIRY_MS]>>]
                /\ nIssued' = [nIssued EXCEPT ![pairingCode] = @ + 1]
                /\ lastStart' = StartCall(jid, mine, pairingCode)
  /\ UNCHANGED <<registeredGroups, deps, nVerified, lastVerify>>
  /\ UNCHANGED <<runVars, runsVars, authVars, msgVars>>

\* one call of verifyPairingCode as its caller sees it: the chat of the table
\* entry it found and the time left to its expiry, the chat it returned
\* (<<>> for null), the chats whose registration it changed and whether the
\* code is gone from the table
VerifyCall(pairingCode, result) ==
  <<[deps |-> deps,
     entry |-> IF pendingPairings[pairingCode] = <<>> THEN <<>>
               ELSE <<[jid |-> pendingPairings[pairingCode][1].jid,
                       left |-> pendingPairings[pairingCode][1].expiresAt - clock]>>,
     wasRegistered |-> /\ pendingPairings[pairingCode] # <<>>
                       /\ registeredGroups[pendingPairings[pairingCode][1].jid] # <<>>,
     result |-> result,
     registered |-> {j \in Jids : registeredGroups'[j] # registeredGroups[j]},
     consumed |-> pendingPairings'[pairingCode] = <<>>]>>

verifyPairingCode(pairingCode) ==
  /\ IF ~deps
     THEN /\ UNCHANGED <<registeredGroups, pendingPairings, nVerified>>
          /\ lastVerify' = VerifyCall(pairingCode, <<>>)
     ELSE LET cleaned == cleanupExpiredPairings(pendingPairings, clock)
              pairing == cleaned[pairingCode]
          IN IF pairing = <<>>
             THEN /\ pendingPairings' = cleaned
                  /\ UNCHANGED <<registeredGroups, nVerified>>
                  /\ lastVerify' = VerifyCall(pairingCode, <<>>)
             ELSE IF registeredGroups[pairing[1].jid] # <<>>
             THEN /\ pendingPairings' = [cleaned EXCEPT ![pairingCode] = <<>>]
                  /\ UNCHANGED <<registeredGroups, nVerified>>
                  /\ lastVerify' = VerifyCall(pairingCode, <<>>)
             ELSE LET folder == folderName(pairing[1].chatTitle)
                  IN /\ registeredGroups' =
                          [registeredGroups EXCEPT ![pairing[1].jid] =
                             <<[name |-> pairing[1].chatTitle, folder |-> folder]>>]
                     /\ pendingPairings' = [cleaned EXCEPT ![pairingCode] = <<>>]
                     /\ nVerified' = [nVerified EXCEPT ![pairingCode] = @ + 1]
                     /\ lastVerify' =
                          VerifyCall(pairingCode, <<[jid |-> pairing[1].jid]>>)
  /\ UNCHANGED <<deps, nIssued, lastStart>>
  /\ UNCHANGED <<runVars, runsVars, authVars, msgVars>>

InitPairing ==
  /\ IdleRun
  /\ NoRuns
  /\ NoPairings
  /\ NoAuth
  /\ NoMessages

NextPairing ==
  \/ \E jid \in WhatsAppJids : RegisterMain(jid)
  \/ startTelegramBot
  \/ \E jid \in TelegramJids, chatTitle \in Titles, pairingCode \in Codes :
       nIssued[pairingCode] < MaxIssues /\ StartCommand(jid, chatTitle, pairingCode)
  \/ \E pairingCode \in Codes : verifyPairingCode(pairingCode)
  \/ Tick

SpecPairing == InitPairing /\ [][NextPairing]_vars

(***************************************************************************)
(* The WhatsApp authentication script.  The socket is the environment: it  *)
(* reports one open or one close, and may report a close after an open.    *)
(* The exit timer (1000 ms) set by an open runs out before a retry wait    *)
(* (RETRY_DELAY_MS, 2000 ms) started after it.                             *)
(***************************************************************************)
loggedOut == "loggedOut"

DisconnectReasons == {loggedOut, "restartRequired", "connectionLost"}

processExit(status) ==
  /\ authPc' = "exited"
  /\ exitCode' = status

\* authenticate(attempt) up to the registration of its handlers
authenticate ==
  /\ authPc = "start"
  /\ IF credsRegistered
     THEN /\ processExit(0)
          /\ UNCHANGED <<sock, nSockets>>
     ELSE /\ authPc' = "waiting"
          /\ sock' = "connecting"
          /\ nSockets' = nSockets + 1
          /\ UNCHANGED exitCode
  /\ UNCHANGED <<attempt, credsRegistered, exitTimer, retryTimer, closes, opened>>
  /\ UNCHANGED <<runVars, runsVars, pairVars, msgVars>>

\* sock.ev.on('creds.update', saveCreds): the pairing marks the credentials
credsUpdate ==
  /\ authPc = "waiting"
  /\ sock \in {"connecting", "open"}
  /\ ~credsRegistered
  /\ credsRegistered' = TRUE
  /\ UNCHANGED <<authPc, attempt, sock, exitTimer, retryTimer, exitCode,
                 nSockets, closes, opened>>
  /\ UNCHANGED <<runVars, runsVars, pairVars, msgVars>>

\* connection.update with connection === 'open'
connectionOpen ==
  /\ authPc = "waiting"
  /\ sock = "connecting"
  /\ sock' = "open"
  /\ exitTimer' = TRUE
  /\ opened' = opened \cup {attempt}
  /\ UNCHANGED <<authPc, attempt, credsRegistered, retryTimer, exitCode,
                 nSockets, closes>>
  /\ UNCHANGED <<runVars, runsVars, pairVars, msgVars>>

\* connection.update with connection === 'close'
connectionClose(reason) ==
  /\ authPc = "waiting"
  /\ sock \in {"connecting", "open"}
  /\ sock' = "closed"
  /\ closes' = Append(closes, [attempt |-> attempt, reason |-> reason])
  /\ IF reason = loggedOut
     THEN /\ processExit(1)
          /\ UNCHANGED retryTimer
     ELSE IF attempt < MAX_RETRIES
     THEN /\ retryTimer' = TRUE
          /\ UNCHANGED <<authPc, exitCode>>
     ELSE /\ processExit(1)
          /\ UNCHANGED retryTimer
  /\ UNCHANGED <<attempt, credsRegistered, exitTimer, nSockets, opened>>
  /\ UNCHANGED <<runVars, runsVars, pairVars, msgVars>>

\* setTimeout(() => process.exit(0), 1000) runs out
exitTimerFires ==
  /\ authPc = "waiting"
  /\ exitTimer
  /\ exitTimer' = FALSE
  /\ processExit(0)
  /\ UNCHANGED <<attempt, sock, credsRegistered, retryTimer, nSockets, closes, opened>>
  /\ UNCHANGED <<runVars, runsVars, pairVars, msgVars>>

\* the RETRY_DELAY_MS wait is over: authenticate(attempt + 1) is called
retryDelayOver ==
  /\ authPc = "waiting"
  /\ retryTimer
  /\ ~exitTimer
  /\ retryTimer' = FALSE
  /\ attempt' = attempt + 1
  /\ authPc' = "start"
  /\ UNCHANGED <<sock, credsRegistered, exitTimer, exitCode, nSockets, closes, opened>>
  /\ UNCHANGED <<runVars, runsVars, pairVars, msgVars>>

\* authenticate() is called at the end of the script: attempt = 1
InitAuth ==
  /\ IdleRun
  /\ NoRuns
  /\ NoPairings
  /\ NoMessages
  /\ authPc = "start"
  /\ attempt = 1
  /\ sock = "none"
  /\ credsRegistered \in BOOLEAN
  /\ exitTimer = FALSE
  /\ retryTimer = FALSE
  /\ exitCode = -1
  /\ nSockets = 0
  /\ closes = <<>>
  /\ opened = {}

NextAuth ==
  \/ authenticate
  \/ credsUpdate
  \/ connectionOpen
  \/ \E reason \in DisconnectReasons : connectionClose(reason)
  \/ exitTimerFires
  \/ retryDelayOver

SpecAuth == InitAuth /\ [][NextAuth]_vars

(***************************************************************************)
(* Text messages: processMessage.  The bot polls and awaits the handler of *)
(* one update before it takes the next, so a message is received only when *)
(* no runAgent call is awaited.  A message is its id, its chat and its     *)
(* date; a prompt is the set of the ids of the messages it holds.          *)
(***************************************************************************)
\* the registrations a run of the specification starts from: the first chat
\* registered with a tg- folder or as main, the second unregistered or
\* registered with a tg- folder
MessageTables ==
  {[j \in Jids |->
      IF j = "telegram:1" THEN <<[name |-> <<"c">>, folder |-> f]>>
      ELSE IF j = "telegram:2" THEN g
      ELSE <<>>] :
     f \in {MainFolder, folderName(<<"c">>)},
     g \in {<<>>, <<[name |-> <<"d">>, folder |-> folderName(<<"d">>)]>>}}

\* deps.getMessagesSince(jid, sinceTimestamp, ASSISTANT_NAME): the stored
\* messages of the chat that are later than sinceTimestamp
getMessagesSince(messages, jid, sinceTimestamp) ==
  {m \in messages : m.jid = jid /\ m.timestamp > sinceTimestamp}

\* one message as the bot saw it, and the chats whose timestamp it changed
MessageSeen(id, jid, matches) ==
  <<[id |-> id, jid |-> jid, matches |-> matches,
     changed |-> {j \in Jids : lastAgentTimestamp'[j] # lastAgentTimestamp[j]}]>>

\* processMessage up to `await deps.runAgent(...)`; matches is
\* TRIGGER_PATTERN.test(text).  The handler is registered by startTelegramBot
\* after it has set deps.
processMessage(jid, date, matches) ==
  /\ deps
  /\ agentRun = <<>>
  /\ nMessages' = nMessages + 1
  /\ LET id == nMessages + 1
         chatGroup == registeredGroups[jid]
         msg == [id |-> id, jid |-> jid, timestamp |-> date]
     IN IF chatGroup = <<>>
        THEN UNCHANGED <<store, agentRun, ran>>
        ELSE /\ store' = store \cup {msg}
             /\ IF chatGroup[1].folder # MainFolder /\ ~matches
                THEN UNCHANGED <<agentRun, ran>>
                ELSE LET sinceTimestamp == lastAgentTimestamp[jid]
                         missedMessages ==
                           getMessagesSince(store', jid, sinceTimestamp)
                     IN /\ agentRun' =
                             <<[jid |-> jid, timestamp |-> date,
                                prompt |-> {m.id : m \in missedMessages}]>>
                        /\ ran' = ran \cup {id}
  /\ UNCHANGED <<lastAgentTimestamp, lastReturn, unanswered>>
  /\ lastMessage' = MessageSeen(nMessages + 1, jid, matches)
  /\ UNCHANGED <<runVars, runsVars, pairVars, authVars>>

\* one return of runAgent as processMessage handled it
AgentReturn(run, response) ==
  <<[jid |-> run.jid, timestamp |-> run.timestamp, response |-> response,
     changed |-> {j \in Jids : lastAgentTimestamp'[j] # lastAgentTimestamp[j]},
     value |-> lastAgentTimestamp'[run.jid]]>>

agentReturns_AlwaysSet(response) ==
  /\ agentRun # <<>>
  /\ LET run == agentRun[1]
     IN /\ lastAgentTimestamp' =
             [lastAgentTimestamp EXCEPT ![run.jid] = run.timestamp]
        /\ unanswered' =
             [unanswered EXCEPT ![run.jid] = IF response THEN {} ELSE run.prompt]
        /\ lastReturn' = AgentReturn(run, response)
  /\ agentRun' = <<>>
  /\ UNCHANGED <<store, nMessages, lastMessage, ran>>
  /\ UNCHANGED <<runVars, runsVars, pairVars, authVars>>

\* processMessage from the return of runAgent on; response is whether the
\* agent returned a non-empty string
agentReturns(response) ==
  /\ agentRun # <<>>
  /\ LET run == agentRun[1]
     IN /\ lastAgentTimestamp' =
             IF response
             THEN [lastAgentTimestamp EXCEPT ![run.jid] = run.timestamp]
             ELSE lastAgentTimestamp
        /\ unanswered' =
             [unanswered EXCEPT ![run.jid] = IF response THEN {} ELSE run.prompt]
        /\ lastReturn' = AgentReturn(run, response)
  /\ agentRun' = <<>>
  /\ UNCHANGED <<store, nMessages, lastMessage, ran>>
  /\ UNCHANGED <<runVars, runsVars, pairVars, authVars>>

InitMessages ==
  /\ IdleRun
  /\ NoRuns
  /\ NoAuth
  /\ NoMessages
  /\ registeredGroups \in MessageTables
  /\ pendingPairings = [c \in Codes |-> <<>>]
  /\ deps = FALSE
  /\ nIssued = [c \in Codes |-> 0]
  /\ nVerified = [c \in Codes |-> 0]
  /\ lastVerify = <<>>
  /\ lastStart = <<>>

NextMessages ==
  \/ startTelegramBot
  \/ \E jid \in TelegramJids, date \in 1..MaxStamp, matches \in BOOLEAN :
       nMessages < MaxMessages /\ processMessage(jid, date, matches)
  \/ \E response \in BOOLEAN : agentReturns(response)

SpecMessages == InitMessages /\ [][NextMessages]_vars

(***************************************************************************)
(* Properties.                                                             *)
(***************************************************************************)
\* the timeout value the claims expect in the message: the tenant's, when
\* one is configured (0 counts as not configured), else the default
ExpectedTimeout ==
  IF timeoutCfg \in {<<>>, <<0>>} THEN CONTAINER_TIMEOUT ELSE timeoutCfg[1]

IsTimeoutError(o) == o.status = "error" /\ o.error.kind = "timeout"

\* text is a JSON text of a JobResult: an object whose status is success or error
ValidJobResult(text) ==
  /\ Len(Trim(text)) = 1
  /\ Trim(text)[1] \in {"j", "r"}

\* pat occurs in s at 0-based index i
Occurs(s, pat, i) ==
  /\ i >= 0
  /\ i + Len(pat) <= Len(s)
  /\ SubSeq(s, i + 1, i + Len(pat)) = pat

\* t is the last n characters of s, all of s when s is shorter
IsTailOf(t, s, n) ==
  /\ Len(t) = (IF Len(s) < n THEN Len(s) ELSE n)
  /\ t = SubSeq(s, Len(s) - Len(t) + 1, Len(s))

\* C1: when the timer fires while the process has not exited, the process is
\* sent the kill and the result returned is the timeout error naming the
\* timeout in use, whatever stdout holds and whatever the exit code is; the
\* output is not parsed on this path.
C1_TimeoutResult ==
  /\ timedOut => killed
  /\ (pc = "returned" /\ timedOut /\ ~firedAfterExit) =>
       /\ output = [status |-> "error", result |-> "null",
                    error |-> [kind |-> "timeout", n |-> ExpectedTimeout,
                               text |-> <<>>]]
       /\ ~parsed
       /\ jsonLine = <<>>

C1_Witness ==
  /\ pc = "returned"
  /\ timedOut /\ ~firedAfterExit
  /\ timeoutCfg = <<2>>
  /\ code = 0
  /\ stdout = <<"j">>
  /\ IsTimeoutError(output)

\* C2 as stated: if the process exits before the timer fires, the result is
\* never the timeout error.
C2_ExitBeforeTimerNeverTimeout ==
  (pc = "returned" /\ (~timedOut \/ firedAfterExit)) => ~IsTimeoutError(output)

\* C2 as amended: the branch is decided by whether the timer fires before
\* both drains have ended and the exit has been observed.  Once all three
\* have happened the timer no longer fires; the result is the timeout error
\* exactly when the timer fired before that, otherwise a non-zero exit code
\* yields the exit-code error and exit code 0 with a parseable JobResult
\* yields the parsed result.
C2_TimerBeforeSettledDecides ==
  /\ (Settled /\ ~timedOut) => ~ENABLED Timeout
  /\ pc = "returned" =>
       /\ IsTimeoutError(output) <=> timedOut
       /\ (~timedOut /\ code # 0) => output.error.kind = "exit"
       /\ (~timedOut /\ code = 0 /\ ValidJobResult(jsonLine)) =>
            output = JsonObject(Trim(jsonLine)[1])

C2_Witness ==
  /\ pc = "returned"
  /\ ~timedOut
  /\ code = 0
  /\ nOut > 0 /\ nErr > 0
  /\ output.status = "success"

\* C3: once the timer has fired and the kill has been sent, the invocation
\* returns: a run that is still waiting can always take a further step.
C3_ReturnsAfterTimeout ==
  (pc = "running" /\ timedOut /\ killed) => ENABLED Next

\* C5: when the process cannot be started the invocation yields a result
\* with status error, never a thrown exception.
C5_SpawnFailureIsErrorResult ==
  (pc # "idle" /\ proc = "none") => (pc = "returned" /\ output.status = "error")

\* C6: with exit code 0 and a candidate that is no valid JobResult the value
\* returned has status error and a non-empty message, so every value
\* returned has status success or error.
C6_InvalidCandidateIsError ==
  /\ (pc = "returned" /\ parsed /\ ~ValidJobResult(jsonLine)) =>
       /\ output.status = "error"
       /\ output.error.text # <<>>
  /\ pc = "returned" => output.status \in {"success", "error"}

\* C9: a non-zero exit code without a timeout yields status error, result
\* null and a message holding the exit code and the last ERROR_TAIL
\* characters of stderr at most; the RunRecord is written before the return
\* and stdout is not parsed.
C9_NonZeroExit ==
  (pc = "returned" /\ ~timedOut /\ code # 0) =>
    /\ output.status = "error"
    /\ output.result = "null"
    /\ output.error.kind = "exit"
    /\ output.error.n = code
    /\ IsTailOf(output.error.text, stderr, ERROR_TAIL)
    /\ Len(logs) = 1
    /\ logs[1].exitCode = code
    /\ ~parsed
    /\ jsonLine = <<>>

C9_Witness ==
  /\ pc = "returned"
  /\ ~timedOut
  /\ code # 0
  /\ Len(stderr) > ERROR_TAIL
  /\ stdout = <<"j">>
  /\ Len(output.error.text) = ERROR_TAIL

\* C10: an invocation that spawned a process has written exactly one
\* RunRecord when it returns, on every branch.
C10_OneRunRecordPerInvocation ==
  pc = "returned" => Len(logs) = 1

\* C4: on each channel the retained text never exceeds the cap; a stream
\* longer than the cap sets the flag and leaves exactly its first cap
\* characters; a stream within the cap (equal to it included) leaves the
\* flag unset and is retained whole.
C4_OutputCap ==
  /\ Len(stdout) <= CONTAINER_MAX_OUTPUT_SIZE
  /\ Len(stderr) <= CONTAINER_MAX_OUTPUT_SIZE
  /\ Len(sentOut) > CONTAINER_MAX_OUTPUT_SIZE =>
       stdoutTruncated /\ stdout = SubSeq(sentOut, 1, CONTAINER_MAX_OUTPUT_SIZE)
  /\ Len(sentErr) > CONTAINER_MAX_OUTPUT_SIZE =>
       stderrTruncated /\ stderr = SubSeq(sentErr, 1, CONTAINER_MAX_OUTPUT_SIZE)
  /\ Len(sentOut) <= CONTAINER_MAX_OUTPUT_SIZE =>
       ~stdoutTruncated /\ stdout = sentOut
  /\ Len(sentErr) <= CONTAINER_MAX_OUTPUT_SIZE =>
       ~stderrTruncated /\ stderr = sentErr

C4_Witness ==
  /\ nErr = 3
  /\ Len(sentErr) > CONTAINER_MAX_OUTPUT_SIZE + 1
  /\ stderrTruncated
  /\ Len(stderr) = CONTAINER_MAX_OUTPUT_SIZE
  /\ stderr[CONTAINER_MAX_OUTPUT_SIZE] # stderr[1]

\* the text strictly between a START marker at i and an END marker at j
Between(s, i, j) == SubSeq(s, i + Len(OUTPUT_START_MARKER) + 1, j)

ContainsMarker(s) ==
  \/ IndexOf(s, OUTPUT_START_MARKER) # -1
  \/ IndexOf(s, OUTPUT_END_MARKER) # -1

\* C7 as stated: for stdout = noise1 + START + payload + END + noise2 the
\* candidate is the trimmed payload, whatever the noise holds.
C7_AnyNoiseAroundMarkers ==
  (pc = "returned" /\ parsed) =>
    \A i, j \in 0..Len(stdout) :
      ( /\ Occurs(stdout, OUTPUT_START_MARKER, i)
        /\ Occurs(stdout, OUTPUT_END_MARKER, j)
        /\ j >= i + Len(OUTPUT_START_MARKER)
        /\ ~ContainsMarker(Between(stdout, i, j)) )
      => jsonLine = Trim(Between(stdout, i, j))

\* C7 as amended: the same, provided the START marker of the form is the
\* first START marker of stdout and its END marker the first END marker;
\* what follows the END marker may be anything.
C7_FirstMarkersDelimit ==
  (pc = "returned" /\ parsed) =>
    \A i, j \in 0..Len(stdout) :
      ( /\ Occurs(stdout, OUTPUT_START_MARKER, i)
        /\ Occurs(stdout, OUTPUT_END_MARKER, j)
        /\ j >= i + Len(OUTPUT_START_MARKER)
        /\ \A i2 \in 0..(i - 1) : ~Occurs(stdout, OUTPUT_START_MARKER, i2)
        /\ \A j2 \in 0..(j - 1) : ~Occurs(stdout, OUTPUT_END_MARKER, j2) )
      => jsonLine = Trim(Between(stdout, i, j))

C7_Witness ==
  /\ pc = "returned"
  /\ parsed
  /\ stdout = <<"x">> \o OUTPUT_START_MARKER \o <<" ", "j", "\n">> \o OUTPUT_END_MARKER
  /\ jsonLine = <<"j">>
  /\ output.status = "success"

\* some START marker of s is followed by an END marker
MarkerPair(s) ==
  \E i, j \in 0..Len(s) :
    /\ Occurs(s, OUTPUT_START_MARKER, i)
    /\ Occurs(s, OUTPUT_END_MARKER, j)
    /\ j > i

IsNonBlank(line) == Trim(line) # <<>>

\* the last line of s that is not blank, the empty text when every line is
LastNonBlankLine(s) ==
  LET ls == SelectSeq(Split(s), IsNonBlank)
  IN IF ls = <<>> THEN <<>> ELSE ls[Len(ls)]

\* C8: without a START marker followed by an END marker the candidate is
\* the last non-blank line of the trimmed stdout; a valid JobResult on that
\* line is returned as it is, and an empty or whitespace-only stdout gives
\* the parse-failure error.
C8_FallbackLastLine ==
  (pc = "returned" /\ parsed /\ ~MarkerPair(stdout)) =>
    /\ jsonLine = LastNonBlankLine(Trim(stdout))
    /\ ValidJobResult(jsonLine) => output = JsonObject(Trim(jsonLine)[1])
    /\ Trim(stdout) = <<>> =>
         output.status = "error" /\ output.error.kind = "parse"

C8_Witness ==
  /\ pc = "returned"
  /\ parsed
  /\ ~MarkerPair(stdout)
  /\ stdout = <<"x", "\n", "r", "\n">>
  /\ jsonLine = <<"r">>
  /\ output.status = "error"
  /\ output.error.kind = "agent"

\* C11: a failure while writing the RunRecord never fails the invocation: an
\* invocation whose process has exited and whose drains have ended does not
\* end by throwing.
C11_LogFailureNeverThrows ==
  ~(pc = "thrown" /\ proc = "exited")

\* one of the two paths is the other or lies under it
Overlap(p, q) == IsUnder(p, q) \/ IsUnder(q, p)

\* the folders of the non-privileged tenants other than the one being run
OtherFolders == Folders \ {MAIN_GROUP_FOLDER, group.folder}

\* C12: the mapping list built for a non-privileged tenant holds no host
\* path that equals, contains or lies under the session directory or the
\* IPC directory of another non-privileged tenant, whatever extra mounts
\* were accepted.
C12_NoPathOfAnotherTenant ==
  (pc # "idle" /\ ~isMain) =>
    \A i \in 1..Len(mounts), f \in OtherFolders :
      /\ ~Overlap(mounts[i].hostPath, <<"home", "proj", "data", "sessions", f, ".claude">>)
      /\ ~Overlap(mounts[i].hostPath, <<"home", "proj", "data", "ipc", f>>)

\* C13: for every tenant and every list of requested extra mounts, no host
\* path of the mapping list equals or lies under a sensitive path, even when
\* the path was requested and an allowlist entry covers it.
C13_NoSensitivePath ==
  pc # "idle" =>
    \A i \in 1..Len(mounts) :
      /\ ~IsUnder(mounts[i].hostPath, <<"home", ".ssh">>)
      /\ ~IsUnder(mounts[i].hostPath, <<"home", ".aws">>)

C13_Witness ==
  /\ pc = "running"
  /\ isMain
  /\ allowlist = {AllowlistEntry(homeDir, TRUE, "")}
  /\ group.additionalMounts =
       <<VolumeMount(<<"home", ".ssh", "id">>, "/workspace/extra", FALSE),
         VolumeMount(<<"home", "docs">>, "/workspace/extra", FALSE)>>
  /\ Len(mounts) = 6
  /\ mounts[6].hostPath = <<"home", "docs">>

\* the mappings buildVolumeMounts adds by itself, before the extra mounts
BuiltinCount == (IF isMain \/ globalDirExists THEN 2 ELSE 1) + 3

\* the allowlist entries covering host path p for the tenant being run
Covering(p) ==
  {e \in allowlist : IsUnder(p, e.path) /\ e.tenant \in {"", group.name}}

\* C14: a requested extra mount that passes the policy and is covered by a
\* read-only allowlist entry is in the mapping list with readonly set,
\* whatever flag the request carried, and is handed to the sandbox with the
\* readonly option; an extra mount is read-write only if the request asked
\* for it and no covering entry is read-only.
C14_ReadOnlyEntryWins ==
  pc # "idle" =>
    /\ \A k \in 1..Len(group.additionalMounts) :
         LET r == group.additionalMounts[k]
         IN ( /\ \E e \in Covering(r.hostPath) : ~e.allowReadWrite
              /\ ~IsUnder(r.hostPath, <<"home", ".ssh">>)
              /\ ~IsUnder(r.hostPath, <<"home", ".aws">>) )
            => \E i \in (BuiltinCount + 1)..Len(mounts) :
                 mounts[i] = VolumeMount(r.hostPath, r.containerPath, TRUE)
    /\ \A i \in (BuiltinCount + 1)..Len(mounts) :
         /\ ~mounts[i].readonly =>
              /\ Covering(mounts[i].hostPath) # {}
              /\ \A e \in Covering(mounts[i].hostPath) : e.allowReadWrite
              /\ \E k \in 1..Len(group.additionalMounts) :
                   group.additionalMounts[k] = mounts[i]
         /\ mounts[i].readonly =>
              containerArgs[3 + i] =
                ContainerArg("--mount", mounts[i].hostPath, mounts[i].containerPath, TRUE)

C14_Witness ==
  /\ pc = "running"
  /\ ~isMain
  /\ allowlist = {AllowlistEntry(homeDir, TRUE, ""), AllowlistEntry(docs, FALSE, "")}
  /\ group.additionalMounts = <<VolumeMount(<<"home", "docs", "a">>, "/workspace/extra", FALSE)>>
  /\ mounts[Len(mounts)] = VolumeMount(<<"home", "docs", "a">>, "/workspace/extra", TRUE)
  /\ containerArgs[Len(containerArgs) - 1].opt = "--mount"

IsMountArg(a) == a.opt \in {"-v", "--mount"}

\* C16: the argument list a sandbox is launched with never holds two
\* mappings with the same target path.
C16_NoTargetCollision ==
  proc # "none" =>
    \A i, j \in 1..Len(containerArgs) :
      (i < j /\ IsMountArg(containerArgs[i]) /\ IsMountArg(containerArgs[j]))
        => containerArgs[i].target # containerArgs[j].target

\* C17: no read-write mapping of a tenant has a host path that is the
\* directory holding the tenant's snapshot files or contains it.
C17_SnapshotDirNotWritable ==
  pc # "idle" =>
    \A i \in 1..Len(mounts) :
      ~mounts[i].readonly =>
        ~IsUnder(<<"home", "proj", "data", "ipc", group.folder>>, mounts[i].hostPath)

\* C18: the task snapshot last written for a folder by a non-privileged
\* call holds exactly the supplied tasks of that folder, in their order, and
\* the one last written by a privileged call holds every supplied task; the
\* file of a folder no call has written for is still absent, so a write
\* for one folder changes the file of no other.
C18_TaskSnapshotFiltered ==
  \A f \in Folders :
    IF tasksCall[f] = <<>>
    THEN tasksFile[f] = <<>>
    ELSE LET call == tasksCall[f][1]
             ofFolder(t) == t.groupFolder = f
         IN /\ tasksFile[f] # <<>>
            /\ call.isMain => tasksFile[f][1] = call.tasks
            /\ ~call.isMain =>
                 /\ tasksFile[f][1] = SelectSeq(call.tasks, ofFolder)
                 /\ \A i \in 1..Len(tasksFile[f][1]) : tasksFile[f][1][i].groupFolder = f

C18_Witness ==
  /\ tasksCall["tg-a"] # <<>>
  /\ ~tasksCall["tg-a"][1].isMain
  /\ Len(tasksCall["tg-a"][1].tasks) = 2
  /\ Len(tasksFile["tg-a"][1]) = 1
  /\ tasksCall[MAIN_GROUP_FOLDER] # <<>>
  /\ tasksCall[MAIN_GROUP_FOLDER][1].isMain
  /\ Len(tasksFile[MAIN_GROUP_FOLDER][1]) = 2
  /\ tasksFile["tg-b"] = <<>>

AssignsName(line, name) == StartsWith(TrimStart(line), <<name, "=">>)

AssignsAllowedName(line) == AssignsName(line, "C") \/ AssignsName(line, "A")

\* the lines of a file that ends with a newline
FileLines(content) ==
  LET ls == Split(content) IN SubSeq(ls, 1, Len(ls) - 1)

\* the TZ line the export must end with
ExpectedTZLine == <<"T", "=">> \o (IF envTZ # <<>> THEN envTZ ELSE <<"s">>)

\* C20: the environment export ends with a newline; its last line is the one
\* TZ line, carrying the host override when set and the system zone
\* otherwise; every line before it assigns an allowed name and is a line of
\* .env, and every .env line that assigns an allowed name is kept, in order;
\* no blank line, comment line or line assigning another name is in it;
\* without .env it holds the TZ line alone.
C20_EnvExportFiltered ==
  pc # "idle" =>
    /\ envExport # <<>>
    /\ LET content == envExport[1]
           ls == FileLines(content)
           n == Len(ls)
           source == IF dotEnv = <<>> THEN <<>> ELSE Split(dotEnv[1])
       IN /\ content # <<>> /\ content[Len(content)] = "\n"
          /\ n >= 1
          /\ ls[n] = ExpectedTZLine
          /\ \A i \in 1..(n - 1) :
               /\ AssignsAllowedName(ls[i])
               /\ ~AssignsName(ls[i], "T")
               /\ Trim(ls[i]) # <<>>
               /\ Trim(ls[i])[1] # "#"
          /\ SubSeq(ls, 1, n - 1) = SelectSeq(source, AssignsAllowedName)
          /\ dotEnv = <<>> => content = ExpectedTZLine \o <<"\n">>

C20_Witness ==
  /\ pc = "running"
  /\ envTZ = <<"o">>
  /\ dotEnv = << <<"#", "A", "=", "v", "\n", "P", "=", "v", "\n", " ", "C", "=", "v", " ">> >>
  /\ envExport = << <<" ", "C", "=", "v", " ", "\n", "T", "=", "o", "\n">> >>

\* C21: no mapping of the list built for a tenant, privileged or not, has a
\* host path that is the .env file of the project root or contains it.
C21_SecretSourceNotMounted ==
  pc # "idle" =>
    \A i \in 1..Len(mounts) :
      ~IsUnder(<<"home", "proj", ".env">>, mounts[i].hostPath)

\* C22: two invocations for tenants with different folders write no common
\* path.
C22_NoCommonWrittenPath ==
  \A i, j \in Invocations :
    runs[i].folder # runs[j].folder => wrote[i] \cap wrote[j] = {}

\* C23: no two invocations write the same log file: there are as many log
\* files as invocations that have written theirs.
C23_OneLogFilePerLoggedRun ==
  Cardinality(logFiles) = Cardinality({i \in Invocations : runs[i].phase = "logged"})

\* C25: while a channel has not reached end-of-stream its drain accepts the
\* next chunk, whether or not the channel has reached its cap and whatever
\* the state of the other channel; what a capped channel retains stays its
\* first cap characters, so the further chunks are discarded.
C25_DrainKeepsReading ==
  pc = "running" =>
    /\ ~outEnded => \A chunk \in CollectChunks : ENABLED ReadStdout(chunk)
    /\ ~errEnded => \A chunk \in CollectChunks : ENABLED ReadStderr(chunk)
    /\ stdoutTruncated => stdout = SubSeq(sentOut, 1, CONTAINER_MAX_OUTPUT_SIZE)
    /\ stderrTruncated => stderr = SubSeq(sentErr, 1, CONTAINER_MAX_OUTPUT_SIZE)

C25_Witness ==
  /\ pc = "running"
  /\ nOut = 3
  /\ Len(sentOut) = 3 * MaxChunkLen
  /\ stdoutTruncated
  /\ outEnded
  /\ ~errEnded

\* C24: the registered-groups table holds at most one entry whose folder is
\* the main folder.
C24_AtMostOneMain ==
  Cardinality({j \in Jids : registeredGroups[j] # <<>>
                            /\ registeredGroups[j][1].folder = MainFolder}) <= 1

\* C26: verifyPairingCode returns chat info and registers that chat exactly
\* when the bot is initialised, the code has a pending entry whose expiry
\* time has not passed and whose chat is not registered; in every other case
\* it returns null and registers nothing; a verified code is removed from
\* the table.  A pending entry always comes from
\* a /start or /register command, and a code is verified at most as often as
\* it was issued.
C26_VerifyOnlyValidCode ==
  /\ \A c \in Codes : /\ pendingPairings[c] # <<>> => nIssued[c] > 0
                      /\ nVerified[c] <= nIssued[c]
  /\ lastVerify # <<>> =>
       LET v == lastVerify[1]
           valid == /\ v.deps
                    /\ v.entry # <<>>
                    /\ v.entry[1].left >= 0
                    /\ ~v.wasRegistered
       IN /\ (v.result # <<>>) <=> valid
          /\ ~valid => v.registered = {}
          /\ valid => /\ v.registered = {v.entry[1].jid}
                      /\ v.result[1].jid = v.entry[1].jid
                      /\ registeredGroups[v.entry[1].jid] # <<>>
                      /\ v.consumed

\* a code verified at the very clock reading of its expiry time
C26_Witness ==
  /\ lastVerify # <<>>
  /\ lastVerify[1].result # <<>>
  /\ lastVerify[1].entry[1].left = 0

\* C27: the pending-pairing table holds at most one entry per chat; a /start
\* from a registered chat creates no entry, and a /start from a chat with an
\* unexpired pending code replies with that code and creates no entry.
C27_OnePendingPerChat ==
  /\ \A j \in Jids : Cardinality(CodesOf(pendingPairings, j)) <= 1
  /\ lastStart # <<>> =>
       LET s == lastStart[1]
       IN /\ s.wasRegistered => s.added = {}
          /\ (~s.wasRegistered /\ s.had # {}) => (s.added = {} /\ s.had = {s.reply})

\* a second /start from a chat whose code is still pending
C27_Witness ==
  /\ lastStart # <<>>
  /\ ~lastStart[1].wasRegistered
  /\ lastStart[1].had # {}
  /\ lastStart[1].reply \in lastStart[1].had
  /\ lastStart[1].added = {}
  /\ pendingPairings[lastStart[1].reply] # <<>>

\* C28: a /start command leaves every other chat's unexpired pending pairing
\* as it was: it neither removes nor replaces it.
C28_OtherChatsPendingKept ==
  lastStart # <<>> => lastStart[1].lost = {}

\* C29: a chat registered through verifyPairingCode shares its folder with no
\* other registered group.
C29_DistinctFolders ==
  \A i \in TelegramJids, j \in Jids :
    (i # j /\ registeredGroups[i] # <<>> /\ registeredGroups[j] # <<>>)
      => registeredGroups[i][1].folder # registeredGroups[j][1].folder

\* C30: the authentication script makes at most MAX_RETRIES connection
\* attempts; a close with another reason than logged-out is followed by one
\* further attempt while fewer than MAX_RETRIES were made and by exit status 1
\* after the last; a logged-out close gives exit status 1 and no retry; and
\* a script whose connection opened ends with exit status 0.
C30_AuthOutcome ==
  /\ attempt <= MAX_RETRIES
  /\ nSockets <= MAX_RETRIES
  /\ \A i \in 1..Len(closes) :
       /\ closes[i].reason = loggedOut =>
            (authPc = "exited" /\ attempt = closes[i].attempt)
       /\ (closes[i].reason # loggedOut /\ closes[i].attempt = MAX_RETRIES) =>
            (authPc = "exited" /\ exitCode = 1)
       /\ attempt <= closes[i].attempt + 1
  /\ (authPc = "exited" /\ opened # {}) => exitCode = 0

\* C31: processMessage changes the last-agent timestamp of a chat only when
\* the agent returned a non-empty response for that chat, and then to the
\* date of the message that started the run; a message from an unregistered
\* chat is neither stored nor run; a message that does not match the trigger
\* in a group other than main is stored and starts no run; and the prompt of
\* a run that returned nothing is part of the prompt of the chat's next run.
C31_TimestampAfterResponse ==
  /\ lastMessage # <<>> =>
       LET m == lastMessage[1]
           chatGroup == registeredGroups[m.jid]
           stored == \E s \in store : s.id = m.id
       IN /\ m.changed = {}
          /\ chatGroup = <<>> => (~stored /\ m.id \notin ran)
          /\ chatGroup # <<>> => stored
          /\ (chatGroup # <<>> /\ chatGroup[1].folder # MainFolder /\ ~m.matches)
               => m.id \notin ran
  /\ lastReturn # <<>> =>
       LET r == lastReturn[1]
       IN IF r.response
          THEN r.changed \subseteq {r.jid} /\ r.value = r.timestamp
          ELSE r.changed = {}
  /\ agentRun # <<>> => unanswered[agentRun[1].jid] \subseteq agentRun[1].prompt

\* a run that follows a run of the same chat that returned nothing, with a
\* later message in its prompt
C31_Witness ==
  /\ agentRun # <<>>
  /\ unanswered[agentRun[1].jid] # {}
  /\ unanswered[agentRun[1].jid] # agentRun[1].prompt
  /\ lastReturn # <<>>
  /\ ~lastReturn[1].response
  /\ lastReturn[1].jid = agentRun[1].jid

====
